---- MODULE Spec2Model ----
(***************************************************************************)
(* The vector kernel of universal-search-hub: euclideanDistance,          *)
(* cosineSimilarity and normalize, in its two implementations             *)
(*   "c"   src/src/wasm/vector_simd.c    (explicit 4-lane wasm SIMD)       *)
(*   "cpp" src/src/wasm/vector_simd.cpp  (scalar loops)                    *)
(* over a linear memory of float cells.                                    *)
(*                                                                         *)
(* Floats are modelled with exact arithmetic: a finite value is            *)
(* (n/d)*sqrt(r), r squarefree (r = 1 for a rational), and the IEEE-754    *)
(* values NaN, +Inf and -Inf follow the IEEE rules (0*Inf = NaN, x/0 = Inf,*)
(* 0/0 = NaN, NaN > 0 is false).  A sum of two finite values with          *)
(* different radicals has no exact representation here ("unrep"); a call   *)
(* whose arithmetic needs one is outside the model's inputs.               *)
(***************************************************************************)
EXTENDS Integers, Sequences, FiniteSets, TLC

(* ----------------------------- bounds ---------------------------------- *)
\* Number of float cells of the linear memory.
MemSize == 8
\* At most this many cells of the initial memory are nonzero.
MaxNonZero == 2
\* Width of the C int of the loop-control specification (32 in the build).
IntBits == 5

\* The lane width of v128 as f32x4, and the stride "i += 4".
LaneWidth == 4

\* The element counts passed in a call: negative, zero, and up to the whole
\* memory (two lane groups).
MinLen == 0 - 1

MaxLen == MemSize

(* ------------------------- exact floats -------------------------------- *)
Abs(x) == IF x < 0 THEN -x ELSE x

Sign(x) == IF x < 0 THEN -1 ELSE IF x > 0 THEN 1 ELSE 0

RECURSIVE GCD(_, _)
GCD(x, y) == IF y = 0 THEN x ELSE GCD(y, x % y)

\* The largest k (tried from k upwards) with k*k dividing m, m >= 1.
RECURSIVE SquarePart(_, _)
SquarePart(m, k) ==
    IF k * k > m THEN 1
    ELSE IF m % (k * k) = 0 THEN k * SquarePart(m \div (k * k), k)
    ELSE SquarePart(m, k + 1)

NaN == [k |-> "nan", n |-> 0, d |-> 1, r |-> 1]

PosInf == [k |-> "inf", n |-> 1, d |-> 1, r |-> 1]

NegInf == [k |-> "inf", n |-> -1, d |-> 1, r |-> 1]

Unrep == [k |-> "unrep", n |-> 0, d |-> 1, r |-> 1]

\* The finite value (n/d)*sqrt(r) in canonical form (d > 0, r squarefree).
Fin(n, d, r) ==
    IF n = 0 THEN [k |-> "fin", n |-> 0, d |-> 1, r |-> 1]
    ELSE LET g == GCD(Abs(n), d)
         IN [k |-> "fin", n |-> n \div g, d |-> d \div g, r |-> r]

F(n) == Fin(n, 1, 1)

IsFin(x) == x.k = "fin"

IsZero(x) == x.k = "fin" /\ x.n = 0

IsNaN(x) == x.k = "nan"

IsInf(x) == x.k = "inf"

\* A non-finite float: NaN or an infinity.
NonFinite(x) == x.k \in {"nan", "inf"}

\* The C comparison x > 0.0f: false for NaN.
GtZero(x) == x.k \in {"fin", "inf"} /\ x.n > 0

fneg(x) == IF x.k \in {"fin", "inf"} THEN [x EXCEPT !.n = -x.n] ELSE x

\* float * float
fmul(x, y) ==
    IF x.k = "unrep" \/ y.k = "unrep" THEN Unrep
    ELSE IF x.k = "nan" \/ y.k = "nan" THEN NaN
    ELSE IF x.k = "inf" \/ y.k = "inf"
         THEN IF x.n = 0 \/ y.n = 0 THEN NaN
              ELSE IF Sign(x.n) * Sign(y.n) > 0 THEN PosInf ELSE NegInf
    ELSE LET g == GCD(x.r, y.r)
         IN Fin(x.n * y.n * g, x.d * y.d, (x.r \div g) * (y.r \div g))

\* float + float
fadd(x, y) ==
    IF x.k = "unrep" \/ y.k = "unrep" THEN Unrep
    ELSE IF x.k = "nan" \/ y.k = "nan" THEN NaN
    ELSE IF x.k = "inf" /\ y.k = "inf" THEN (IF x.n = y.n THEN x ELSE NaN)
    ELSE IF x.k = "inf" THEN x
    ELSE IF y.k = "inf" THEN y
    ELSE IF x.n = 0 THEN y
    ELSE IF y.n = 0 THEN x
    ELSE IF x.r = y.r THEN Fin(x.n * y.d + y.n * x.d, x.d * y.d, x.r)
    ELSE Unrep

\* float - float
fsub(x, y) == fadd(x, fneg(y))

\* 1/x for a finite nonzero x: 1/((n/d) sqrt r) = (d/(n r)) sqrt r.
Recip(x) == Fin(Sign(x.n) * x.d, Abs(x.n) * x.r, x.r)

\* float / float
fdiv(x, y) ==
    IF x.k = "unrep" \/ y.k = "unrep" THEN Unrep
    ELSE IF x.k = "nan" \/ y.k = "nan" THEN NaN
    ELSE IF y.k = "inf" THEN (IF x.k = "inf" THEN NaN ELSE F(0))
    ELSE IF y.n = 0
         THEN IF x.n = 0 THEN NaN
              ELSE IF x.n > 0 THEN PosInf ELSE NegInf
    ELSE IF x.k = "inf"
         THEN (IF Sign(x.n) * Sign(y.n) > 0 THEN PosInf ELSE NegInf)
    ELSE fmul(x, Recip(y))

\* __builtin_sqrtf / std::sqrt
sqrtf(x) ==
    IF x.k \in {"unrep", "nan"} THEN x
    ELSE IF x.n < 0 THEN NaN
    ELSE IF x.k = "inf" THEN x
    ELSE IF x.n = 0 THEN x
    ELSE IF x.r # 1 THEN Unrep
    ELSE LET s == SquarePart(x.n * x.d, 2)
         IN Fin(s, x.d, (x.n * x.d) \div (s * s))

(* --------------------------- v128 as f32x4 ----------------------------- *)
Lanes == 1..LaneWidth

\* A float cell index p is the address of a whole v128 inside linear memory.
InMemory(p) == p >= 0 /\ p + LaneWidth <= MemSize

wasm_f32x4_splat(x) == [j \in Lanes |-> x]

wasm_v128_load(m, p) == [j \in Lanes |-> m[p + j - 1]]

wasm_v128_store(m, p, v) ==
    [c \in DOMAIN m |-> IF c >= p /\ c < p + LaneWidth THEN v[c - p + 1] ELSE m[c]]

wasm_f32x4_add(u, v) == [j \in Lanes |-> fadd(u[j], v[j])]

wasm_f32x4_sub(u, v) == [j \in Lanes |-> fsub(u[j], v[j])]

wasm_f32x4_mul(u, v) == [j \in Lanes |-> fmul(u[j], v[j])]

wasm_f32x4_extract_lane(v, j) == v[j + 1]

\* Mutant of HorizontalSum: the last operand extracts lane 2 again.
HorizontalSum_Lane2Twice(v) ==
    fadd(fadd(fadd(wasm_f32x4_extract_lane(v, 0), wasm_f32x4_extract_lane(v, 1)),
              wasm_f32x4_extract_lane(v, 2)),
         wasm_f32x4_extract_lane(v, 2))

\* extract_lane(v,0) + extract_lane(v,1) + extract_lane(v,2) + extract_lane(v,3)
HorizontalSum(v) ==
    fadd(fadd(fadd(wasm_f32x4_extract_lane(v, 0), wasm_f32x4_extract_lane(v, 1)),
              wasm_f32x4_extract_lane(v, 2)),
         wasm_f32x4_extract_lane(v, 3))

\* The cells a v128 access at p touches.
Group(p) == p..(p + LaneWidth - 1)

NoValue == [k |-> "none", n |-> 0, d |-> 1, r |-> 1]

(* ---------------------- vector_simd.c (4 lanes) ------------------------ *)
\* for (int i = 0; i < len; i += 4) { load a, load b, sub, mul, add }
\* st: the lane accumulator, the cells loaded so far through a and through b,
\* and whether a load fell outside linear memory (a wasm trap).
RECURSIVE EuclidLoopC(_, _, _, _, _, _)
EuclidLoopC(m, a, b, len, i, st) ==
    IF ~(i < len) THEN st
    ELSE IF ~InMemory(a + i) THEN [st EXCEPT !.trap = TRUE]
    ELSE IF ~InMemory(b + i)
         THEN [st EXCEPT !.trap = TRUE, !.loadsA = @ \cup Group(a + i)]
    ELSE LET va   == wasm_v128_load(m, a + i)
             vb   == wasm_v128_load(m, b + i)
             diff == wasm_f32x4_sub(va, vb)
         IN EuclidLoopC(m, a, b, len, i + LaneWidth,
                [st EXCEPT !.sum = wasm_f32x4_add(@, wasm_f32x4_mul(diff, diff)),
                           !.loadsA = @ \cup Group(a + i),
                           !.loadsB = @ \cup Group(b + i)])

euclideanDistance_c(m, a, b, len) ==
    LET st == EuclidLoopC(m, a, b, len, 0,
                  [sum |-> wasm_f32x4_splat(F(0)), loadsA |-> {}, loadsB |-> {},
                   trap |-> FALSE])
        final_sum == HorizontalSum(st.sum)
    IN [mem |-> m, trap |-> st.trap, loadsA |-> st.loadsA, loadsB |-> st.loadsB,
        stores |-> {},
        lanes |-> <<st.sum>>,
        acc |-> IF st.trap THEN <<>> ELSE <<final_sum>>,
        ret |-> IF st.trap THEN NoValue ELSE sqrtf(final_sum)]

RECURSIVE CosineLoopC(_, _, _, _, _, _)
CosineLoopC(m, a, b, len, i, st) ==
    IF ~(i < len) THEN st
    ELSE IF ~InMemory(a + i) THEN [st EXCEPT !.trap = TRUE]
    ELSE IF ~InMemory(b + i)
         THEN [st EXCEPT !.trap = TRUE, !.loadsA = @ \cup Group(a + i)]
    ELSE LET va == wasm_v128_load(m, a + i)
             vb == wasm_v128_load(m, b + i)
         IN CosineLoopC(m, a, b, len, i + LaneWidth,
                [st EXCEPT !.dot = wasm_f32x4_add(@, wasm_f32x4_mul(va, vb)),
                           !.normA = wasm_f32x4_add(@, wasm_f32x4_mul(va, va)),
                           !.normB = wasm_f32x4_add(@, wasm_f32x4_mul(vb, vb)),
                           !.loadsA = @ \cup Group(a + i),
                           !.loadsB = @ \cup Group(b + i)])

\* Mutant of cosineSimilarity_c: a zero denominator returns the sentinel 0.
cosineSimilarity_c_ZeroGuard(m, a, b, len) ==
    LET st == CosineLoopC(m, a, b, len, 0,
                  [dot |-> wasm_f32x4_splat(F(0)), normA |-> wasm_f32x4_splat(F(0)),
                   normB |-> wasm_f32x4_splat(F(0)), loadsA |-> {}, loadsB |-> {},
                   trap |-> FALSE])
        dotProduct == HorizontalSum(st.dot)
        normASum   == HorizontalSum(st.normA)
        normBSum   == HorizontalSum(st.normB)
        denom      == fmul(sqrtf(normASum), sqrtf(normBSum))
    IN [mem |-> m, trap |-> st.trap, loadsA |-> st.loadsA, loadsB |-> st.loadsB,
        stores |-> {},
        lanes |-> <<st.dot, st.normA, st.normB>>,
        acc |-> IF st.trap THEN <<>> ELSE <<dotProduct, normASum, normBSum>>,
        ret |-> IF st.trap THEN NoValue
                ELSE IF IsZero(denom) THEN F(0)
                ELSE fdiv(dotProduct, denom)]

cosineSimilarity_c(m, a, b, len) ==
    LET st == CosineLoopC(m, a, b, len, 0,
                  [dot |-> wasm_f32x4_splat(F(0)), normA |-> wasm_f32x4_splat(F(0)),
                   normB |-> wasm_f32x4_splat(F(0)), loadsA |-> {}, loadsB |-> {},
                   trap |-> FALSE])
        dotProduct == HorizontalSum(st.dot)
        normASum   == HorizontalSum(st.normA)
        normBSum   == HorizontalSum(st.normB)
    IN [mem |-> m, trap |-> st.trap, loadsA |-> st.loadsA, loadsB |-> st.loadsB,
        stores |-> {},
        lanes |-> <<st.dot, st.normA, st.normB>>,
        acc |-> IF st.trap THEN <<>> ELSE <<dotProduct, normASum, normBSum>>,
        ret |-> IF st.trap THEN NoValue
                ELSE fdiv(dotProduct, fmul(sqrtf(normASum), sqrtf(normBSum)))]

\* First loop of normalize: the sum of squares, lane by lane.
RECURSIVE NormSumLoopC(_, _, _, _, _)
NormSumLoopC(m, v, len, i, st) ==
    IF ~(i < len) THEN st
    ELSE IF ~InMemory(v + i) THEN [st EXCEPT !.trap = TRUE]
    ELSE LET vec == wasm_v128_load(m, v + i)
         IN NormSumLoopC(m, v, len, i + LaneWidth,
                [st EXCEPT !.sum = wasm_f32x4_add(@, wasm_f32x4_mul(vec, vec)),
                           !.loadsA = @ \cup Group(v + i)])

\* Second loop of normalize: load, multiply by normVec, store.
RECURSIVE ScaleLoopC(_, _, _, _, _)
ScaleLoopC(v, len, i, normVec, st) ==
    IF ~(i < len) THEN st
    ELSE IF ~InMemory(v + i) THEN [st EXCEPT !.trap = TRUE]
    ELSE LET vec == wasm_v128_load(st.mem, v + i)
         IN ScaleLoopC(v, len, i + LaneWidth, normVec,
                [st EXCEPT !.mem = wasm_v128_store(@, v + i, wasm_f32x4_mul(vec, normVec)),
                           !.loadsA = @ \cup Group(v + i),
                           !.stores = @ \cup Group(v + i)])

normalize_c(m, v, len) ==
    LET s1 == NormSumLoopC(m, v, len, 0,
                  [sum |-> wasm_f32x4_splat(F(0)), loadsA |-> {}, trap |-> FALSE])
        normSum == HorizontalSum(s1.sum)
        norm    == sqrtf(normSum)
        normVec == wasm_f32x4_splat(fdiv(F(1), norm))
        s2 == ScaleLoopC(v, len, 0, normVec,
                  [mem |-> m, loadsA |-> s1.loadsA, stores |-> {}, trap |-> FALSE])
    IN IF s1.trap
       THEN [mem |-> m, trap |-> TRUE, loadsA |-> s1.loadsA, loadsB |-> {},
             stores |-> {},
             lanes |-> <<s1.sum>>, acc |-> <<>>, ret |-> NoValue]
       ELSE [mem |-> s2.mem, trap |-> s2.trap, loadsA |-> s2.loadsA, loadsB |-> {},
             stores |-> s2.stores, lanes |-> <<s1.sum>>, acc |-> <<normSum>>,
             ret |-> NoValue]

(* ---------------------- vector_simd.cpp (scalar) ----------------------- *)
\* for (int i = 0; i < len; i++) { diff = a[i] - b[i]; sum += diff * diff; }
RECURSIVE EuclidLoopCpp(_, _, _, _, _, _)
EuclidLoopCpp(m, a, b, len, i, st) ==
    IF ~(i < len) THEN st
    ELSE LET diff == fsub(m[a + i], m[b + i])
         IN EuclidLoopCpp(m, a, b, len, i + 1,
                [st EXCEPT !.sum = fadd(@, fmul(diff, diff)),
                           !.loadsA = @ \cup {a + i},
                        !.loadsB = @ \cup {b + i}])

euclideanDistance_cpp(m, a, b, len) ==
    LET st == EuclidLoopCpp(m, a, b, len, 0,
                  [sum |-> F(0), loadsA |-> {}, loadsB |-> {}])
    IN [mem |-> m, trap |-> FALSE, loadsA |-> st.loadsA, loadsB |-> st.loadsB,
        stores |-> {},
        lanes |-> <<>>, acc |-> <<st.sum>>, ret |-> sqrtf(st.sum)]

\* Mutant of CosineLoopCpp: normB accumulates a[i] * a[i].
RECURSIVE CosineLoopCpp_NormBFromA(_, _, _, _, _, _)
CosineLoopCpp_NormBFromA(m, a, b, len, i, st) ==
    IF ~(i < len) THEN st
    ELSE CosineLoopCpp_NormBFromA(m, a, b, len, i + 1,
             [st EXCEPT !.dot = fadd(@, fmul(m[a + i], m[b + i])),
                        !.normA = fadd(@, fmul(m[a + i], m[a + i])),
                        !.normB = fadd(@, fmul(m[a + i], m[a + i])),
                        !.loadsA = @ \cup {a + i},
                        !.loadsB = @ \cup {b + i}])

\* for (int i = 0; i < len; i++) { dot += a[i]*b[i]; normA += ...; normB += ...; }
RECURSIVE CosineLoopCpp(_, _, _, _, _, _)
CosineLoopCpp(m, a, b, len, i, st) ==
    IF ~(i < len) THEN st
    ELSE CosineLoopCpp(m, a, b, len, i + 1,
             [st EXCEPT !.dot = fadd(@, fmul(m[a + i], m[b + i])),
                        !.normA = fadd(@, fmul(m[a + i], m[a + i])),
                        !.normB = fadd(@, fmul(m[b + i], m[b + i])),
                        !.loadsA = @ \cup {a + i},
                        !.loadsB = @ \cup {b + i}])

cosineSimilarity_cpp(m, a, b, len) ==
    LET st == CosineLoopCpp(m, a, b, len, 0,
                  [dot |-> F(0), normA |-> F(0), normB |-> F(0), loadsA |-> {},
                   loadsB |-> {}])
    IN [mem |-> m, trap |-> FALSE, loadsA |-> st.loadsA, loadsB |-> st.loadsB,
        stores |-> {},
        lanes |-> <<>>, acc |-> <<st.dot, st.normA, st.normB>>,
        ret |-> fdiv(st.dot, fmul(sqrtf(st.normA), sqrtf(st.normB)))]

RECURSIVE NormSumLoopCpp(_, _, _, _, _)
NormSumLoopCpp(m, v, len, i, st) ==
    IF ~(i < len) THEN st
    ELSE NormSumLoopCpp(m, v, len, i + 1,
             [st EXCEPT !.sum = fadd(@, fmul(m[v + i], m[v + i])),
                        !.loadsA = @ \cup {v + i}])

\* for (int i = 0; i < len; i++) v[i] /= norm;
RECURSIVE ScaleLoopCpp(_, _, _, _, _)
ScaleLoopCpp(v, len, i, norm, st) ==
    IF ~(i < len) THEN st
    ELSE ScaleLoopCpp(v, len, i + 1, norm,
             [st EXCEPT !.mem = [@ EXCEPT ![v + i] = fdiv(@, norm)],
                        !.loadsA = @ \cup {v + i},
                        !.stores = @ \cup {v + i}])

\* Mutant of normalize_cpp: the guard norm > 0.0f is missing.
normalize_cpp_NoGuard(m, v, len) ==
    LET s1 == NormSumLoopCpp(m, v, len, 0, [sum |-> F(0), loadsA |-> {}])
        norm == sqrtf(s1.sum)
        s2 == ScaleLoopCpp(v, len, 0, norm,
                  [mem |-> m, loadsA |-> s1.loadsA, stores |-> {}])
    IN [mem |-> s2.mem, trap |-> FALSE, loadsA |-> s2.loadsA, loadsB |-> {},
        stores |-> s2.stores,
        lanes |-> <<>>, acc |-> <<s1.sum>>, ret |-> NoValue]

\* sum of squares, norm = sqrt(sum), and the scaling loop under norm > 0.0f
normalize_cpp(m, v, len) ==
    LET s1 == NormSumLoopCpp(m, v, len, 0, [sum |-> F(0), loadsA |-> {}])
        norm == sqrtf(s1.sum)
        s2 == IF GtZero(norm)
              THEN ScaleLoopCpp(v, len, 0, norm,
                       [mem |-> m, loadsA |-> s1.loadsA, stores |-> {}])
              ELSE [mem |-> m, loadsA |-> s1.loadsA, stores |-> {}]
    IN [mem |-> s2.mem, trap |-> FALSE, loadsA |-> s2.loadsA, loadsB |-> {},
        stores |-> s2.stores,
        lanes |-> <<>>, acc |-> <<s1.sum>>, ret |-> NoValue]

(* --------------------------- the host ---------------------------------- *)
VARIABLES
    mem,    \* linear memory: cell index -> float
    old,    \* the memory as it was when the last call was made
    rec,    \* the last call: its arguments and what it did
    loop    \* loop control of a call in progress (specification SpecLoop)

vars == <<mem, old, rec, loop>>

Cells == 0..(MemSize - 1)

Impls == {"c", "cpp"}

\* Base addresses the host passes: the start of memory and one cell further.
\* Two buffers may coincide or overlap (the reductions only read them), and a
\* buffer at 1 may end with the last cell of linear memory.
Ptrs == {0, 1}

Lens == MinLen..MaxLen

\* The values the host writes into a vector.
NonZeroVals == {F(0 - 3), F(4), NaN}

InitMems ==
    UNION { { [c \in Cells |-> IF c \in S THEN f[c] ELSE F(0)] : f \in [S -> NonZeroVals] }
            : S \in {T \in SUBSET Cells : Cardinality(T) <= MaxNonZero} }

\* The caller's obligation: the buffer at p holds len readable elements.
ValidBuffer(p, len) == IF len > 0 THEN p + len <= MemSize ELSE TRUE

\* The buffer's cells.
Buffer(p, len) == {c \in Cells : c >= p /\ c < p + len}

\* Every float the call computed has an exact representation in the model.
Representable(res) ==
    /\ \A c \in Cells : res.mem[c].k # "unrep"
    /\ \A j \in DOMAIN res.acc : res.acc[j].k # "unrep"
    /\ \A j \in DOMAIN res.lanes : \A l \in Lanes : res.lanes[j][l].k # "unrep"
    /\ res.ret.k # "unrep"

euclideanDistance(impl, m, a, b, len) ==
    IF impl = "c" THEN euclideanDistance_c(m, a, b, len)
    ELSE euclideanDistance_cpp(m, a, b, len)

cosineSimilarity(impl, m, a, b, len) ==
    IF impl = "c" THEN cosineSimilarity_c(m, a, b, len)
    ELSE cosineSimilarity_cpp(m, a, b, len)

normalize(impl, m, v, len) ==
    IF impl = "c" THEN normalize_c(m, v, len) ELSE normalize_cpp(m, v, len)

NoCall ==
    [op |-> "none", impl |-> "none", a |-> 0, b |-> 0, len |-> 0, trap |-> FALSE,
     loadsA |-> {}, loadsB |-> {}, stores |-> {}, lanes |-> <<>>, acc |-> <<>>,
     ret |-> NoValue]

Idle == [pc |-> "idle", op |-> "none", impl |-> "none", len |-> 0, i |-> 0,
         positive |-> FALSE, iters |-> <<>>, wrapped |-> FALSE]

\* The state after a call op(a, b, len) of implementation impl, made on a
\* memory the host has just filled, ended with res.
Returned(op, impl, a, b, len, res) ==
    /\ rec.op = "none"
    /\ loop.pc = "idle"
    /\ Representable(res)
    /\ mem' = res.mem
    /\ old' = mem
    /\ rec' = [op |-> op, impl |-> impl, a |-> a, b |-> b, len |-> len,
               trap |-> res.trap, loadsA |-> res.loadsA, loadsB |-> res.loadsB,
               stores |-> res.stores,
               lanes |-> res.lanes, acc |-> res.acc, ret |-> res.ret]
    /\ UNCHANGED loop

Init ==
    /\ mem \in InitMems
    /\ old = mem
    /\ rec = NoCall
    /\ loop = Idle

CallEuclideanDistance ==
    \E impl \in Impls, a \in Ptrs, b \in Ptrs, len \in Lens :
        /\ ValidBuffer(a, len) /\ ValidBuffer(b, len)
        /\ Returned("euclideanDistance", impl, a, b, len,
                    euclideanDistance(impl, mem, a, b, len))

CallCosineSimilarity ==
    \E impl \in Impls, a \in Ptrs, b \in Ptrs, len \in Lens :
        /\ ValidBuffer(a, len) /\ ValidBuffer(b, len)
        /\ Returned("cosineSimilarity", impl, a, b, len,
                    cosineSimilarity(impl, mem, a, b, len))

CallNormalize ==
    \E impl \in Impls, v \in Ptrs, len \in Lens :
        /\ ValidBuffer(v, len)
        /\ Returned("normalize", impl, v, v, len, normalize(impl, mem, v, len))

Next == CallEuclideanDistance \/ CallCosineSimilarity \/ CallNormalize

Spec == Init /\ [][Next]_vars

(* ------------------- loop control, step by step ------------------------- *)
\* The loops "for (int i = 0; i < len; i += 4)" of vector_simd.c and
\* "for (int i = 0; i < len; i++)" of vector_simd.cpp with i and len in a two's
\* complement int of IntBits bits.  loop.iters holds the number of bodies run
\* by each loop entered so far; loop.positive is the outcome of "norm > 0.0f".
RECURSIVE Pow2(_)
Pow2(n) == IF n = 0 THEN 1 ELSE 2 * Pow2(n - 1)

IntMax == Pow2(IntBits - 1) - 1

IntMin == 0 - Pow2(IntBits - 1)

Ops == {"euclideanDistance", "cosineSimilarity", "normalize"}

\* i += 4 in vector_simd.c, i++ in vector_simd.cpp.
Stride(impl) == IF impl = "c" THEN LaneWidth ELSE 1

InLoop == loop.pc \in {"sum", "scale"}

InitLoop ==
    /\ mem = [c \in Cells |-> F(0)]
    /\ old = mem
    /\ rec = NoCall
    /\ loop = Idle

\* Entry: int i = 0 of the first loop.
LoopCall ==
    \E op \in Ops, impl \in Impls, len \in IntMin..IntMax, positive \in BOOLEAN :
        /\ loop.pc = "idle"
        /\ positive => (op = "normalize" /\ impl = "cpp" /\ len > 0)
        /\ loop' = [pc |-> "sum", op |-> op, impl |-> impl, len |-> len, i |-> 0,
                    positive |-> positive, iters |-> <<0>>, wrapped |-> FALSE]
        /\ UNCHANGED <<mem, old, rec>>

\* i < len holds: the body runs and the step stays inside the int.
LoopStep ==
    /\ InLoop /\ loop.i < loop.len
    /\ loop.i + Stride(loop.impl) <= IntMax
    /\ loop' = [loop EXCEPT !.i = @ + Stride(loop.impl),
                            !.iters[Len(loop.iters)] = @ + 1]
    /\ UNCHANGED <<mem, old, rec>>

\* i < len holds, the body runs, and the step leaves the int: signed overflow.
\* What the build does next is undefined; the state records the wrapped index.
LoopOverflow ==
    /\ InLoop /\ loop.i < loop.len
    /\ loop.i + Stride(loop.impl) > IntMax
    /\ loop' = [loop EXCEPT !.pc = "undefined",
                            !.i = @ + Stride(loop.impl) - Pow2(IntBits),
                            !.iters[Len(loop.iters)] = @ + 1,
                            !.wrapped = TRUE]
    /\ UNCHANGED <<mem, old, rec>>

\* The v128 load of a lane group that reaches past the len elements of the
\* buffer may fall outside linear memory: the call traps.
LoopTrap ==
    /\ InLoop /\ loop.i < loop.len
    /\ loop.impl = "c" /\ loop.i + LaneWidth > loop.len
    /\ loop' = [loop EXCEPT !.pc = "trap"]
    /\ UNCHANGED <<mem, old, rec>>

\* i < len fails: the loop is left; normalize goes on to its scaling loop
\* (vector_simd.cpp only if norm > 0.0f).
LoopExit ==
    /\ InLoop /\ ~(loop.i < loop.len)
    /\ IF loop.pc = "sum" /\ loop.op = "normalize"
             /\ (loop.impl = "c" \/ loop.positive)
       THEN loop' = [loop EXCEPT !.pc = "scale", !.i = 0, !.iters = Append(@, 0)]
       ELSE loop' = [loop EXCEPT !.pc = "done"]
    /\ UNCHANGED <<mem, old, rec>>

LoopReturn ==
    /\ loop.pc \in {"done", "trap"}
    /\ loop' = Idle
    /\ UNCHANGED <<mem, old, rec>>

NextLoop ==
    LoopCall \/ LoopStep \/ LoopOverflow \/ LoopTrap \/ LoopExit \/ LoopReturn

SpecLoop == InitLoop /\ [][NextLoop]_vars

(* ------------------- what the calls are compared with ------------------ *)
\* The C comparison x == y on floats: false when either is NaN.
FloatEq(x, y) == x.k # "nan" /\ y.k # "nan" /\ x = y

\* The sum of term(i) over the i in [0, n) with i % LaneWidth = k.
RECURSIVE LaneSumOf(_, _, _)
LaneSumOf(term(_), n, k) ==
    IF n <= 0 THEN F(0)
    ELSE IF (n - 1) % LaneWidth = k THEN fadd(LaneSumOf(term, n - 1, k), term(n - 1))
    ELSE LaneSumOf(term, n - 1, k)

\* The sum of term(i) over every i in [0, n).
RECURSIVE SumOf(_, _)
SumOf(term(_), n) == IF n <= 0 THEN F(0) ELSE fadd(SumOf(term, n - 1), term(n - 1))

\* The terms of the reductions, on the memory the call was made on.
SqDiffTerm(i) ==
    LET d == fsub(old[rec.a + i], old[rec.b + i]) IN fmul(d, d)

DotTerm(i) == fmul(old[rec.a + i], old[rec.b + i])

SqATerm(i) == fmul(old[rec.a + i], old[rec.a + i])

SqBTerm(i) == fmul(old[rec.b + i], old[rec.b + i])

\* The sum of squares of the vector now at rec.a, over [0, rec.len).
SqNowTerm(i) == fmul(mem[rec.a + i], mem[rec.a + i])

Finished(op) == rec.op = op /\ ~rec.trap

(* ------------------------------ claims --------------------------------- *)
\* C1: the value whose square root euclideanDistance returns is the sum of
\* (a[i]-b[i])^2 over exactly the indices i in [0, len), in both
\* implementations and for every length, a multiple of 4 or not.
C1_SumOverExactlyTheBuffer ==
    Finished("euclideanDistance") => rec.acc[1] = SumOf(SqDiffTerm, rec.len)

\* C1 as far as the code goes: the scalar loop sums exactly [0, len), and so
\* does the 4-lane kernel when len is a multiple of 4.
C1_HoldsWithoutRemainder ==
    (Finished("euclideanDistance") /\ (rec.impl = "cpp" \/ rec.len % LaneWidth = 0))
        => rec.acc[1] = SumOf(SqDiffTerm, rec.len)

\* C2: euclideanDistance is never negative and returns 0 exactly when
\* a[i] = b[i] for every i in [0, len), whatever the cells at indices >= len
\* hold.
C2_ZeroIffEqualOnBuffer ==
    Finished("euclideanDistance") =>
        /\ ~(rec.ret.k \in {"fin", "inf"} /\ rec.ret.n < 0)
        /\ IsZero(rec.ret) <=>
               \A i \in 0..(rec.len - 1) : FloatEq(old[rec.a + i], old[rec.b + i])

\* C3: cosineSimilarity is symmetric: with the two vectors exchanged the dot
\* sum is the same, the two norm sums change places, and the returned value
\* is the same.
C3_CosineSymmetric ==
    Finished("cosineSimilarity") =>
        LET sw == cosineSimilarity(rec.impl, old, rec.b, rec.a, rec.len)
        IN /\ ~sw.trap
           /\ sw.acc[1] = rec.acc[1]
           /\ sw.acc[2] = rec.acc[3]
           /\ sw.acc[3] = rec.acc[2]
           /\ sw.ret = rec.ret

\* A cosineSimilarity call on two different vectors of different nonzero
\* norms and nonzero dot product has returned.
C3_Witness ==
    /\ Finished("cosineSimilarity")
    /\ rec.a # rec.b /\ rec.len > 0
    /\ IsFin(rec.acc[1]) /\ ~IsZero(rec.acc[1])
    /\ IsFin(rec.acc[2]) /\ IsFin(rec.acc[3]) /\ rec.acc[2] # rec.acc[3]
    /\ IsFin(rec.ret)

\* C4: after normalize on a vector of nonzero norm every element of [0, len)
\* is its old value divided by the old norm, the sum of squares over [0, len)
\* is 1, and a second normalize leaves the vector unchanged.
C4_UnitNormIdempotent ==
    LET norm == sqrtf(SumOf(SqATerm, rec.len))
    IN (Finished("normalize") /\ IsFin(norm) /\ GtZero(norm)) =>
        /\ \A i \in 0..(rec.len - 1) : mem[rec.a + i] = fdiv(old[rec.a + i], norm)
        /\ SumOf(SqNowTerm, rec.len) = F(1)
        /\ LET again == normalize(rec.impl, mem, rec.a, rec.len)
           IN ~again.trap /\ \A i \in 0..(rec.len - 1) : again.mem[rec.a + i] = mem[rec.a + i]

\* C5: euclideanDistance and cosineSimilarity leave every memory cell as it
\* was; only normalize stores, and only into the len elements of the vector
\* it was passed.
C5_ReadOnlyAndFrame ==
    /\ rec.op \in {"euclideanDistance", "cosineSimilarity"} =>
           (mem = old /\ rec.stores = {})
    /\ rec.op = "normalize" =>
           /\ rec.stores \subseteq Buffer(rec.a, rec.len)
           /\ \A c \in Cells \ Buffer(rec.a, rec.len) : mem[c] = old[c]

\* C5 as far as the code goes: the two reductions store nothing and leave
\* memory as it was, so whatever is stored is stored by normalize.
C5_ReductionsReadOnly ==
    /\ rec.op \in {"euclideanDistance", "cosineSimilarity"} =>
           (mem = old /\ rec.stores = {})
    /\ (rec.stores # {} \/ mem # old) => rec.op = "normalize"

C7_AccessesInsideBuffers ==
    rec.op # "none" =>
        /\ ~rec.trap
        /\ rec.loadsA \subseteq Buffer(rec.a, rec.len)
        /\ rec.loadsB \subseteq Buffer(rec.b, rec.len)
        /\ rec.stores \subseteq Buffer(rec.a, rec.len)
        /\ \A c \in Cells \ Buffer(rec.a, rec.len) : mem[c] = old[c]

\* C7 as far as the code goes: the scalar loops stay inside the buffers, and
\* so does the 4-lane kernel when len is a multiple of 4.
C7_HoldsWithoutRemainder ==
    (rec.op # "none" /\ (rec.impl = "cpp" \/ rec.len % LaneWidth = 0)) =>
        /\ ~rec.trap
        /\ rec.loadsA \subseteq Buffer(rec.a, rec.len)
        /\ rec.loadsB \subseteq Buffer(rec.b, rec.len)
        /\ rec.stores \subseteq Buffer(rec.a, rec.len)
        /\ \A c \in Cells \ Buffer(rec.a, rec.len) : mem[c] = old[c]

C9_LanesAndCombine ==
    (rec.op # "none" /\ ~rec.trap /\ rec.impl = "c" /\ rec.len % LaneWidth = 0) =>
        /\ rec.op = "euclideanDistance" =>
               /\ \A k \in 0..(LaneWidth - 1) :
                      wasm_f32x4_extract_lane(rec.lanes[1], k)
                          = LaneSumOf(SqDiffTerm, rec.len, k)
               /\ rec.acc = euclideanDistance_cpp(old, rec.a, rec.b, rec.len).acc
        /\ rec.op = "cosineSimilarity" =>
               /\ \A k \in 0..(LaneWidth - 1) :
                      /\ wasm_f32x4_extract_lane(rec.lanes[1], k)
                             = LaneSumOf(DotTerm, rec.len, k)
                      /\ wasm_f32x4_extract_lane(rec.lanes[2], k)
                             = LaneSumOf(SqATerm, rec.len, k)
                      /\ wasm_f32x4_extract_lane(rec.lanes[3], k)
                             = LaneSumOf(SqBTerm, rec.len, k)
               /\ rec.acc = cosineSimilarity_cpp(old, rec.a, rec.b, rec.len).acc
        /\ rec.op = "normalize" =>
               /\ \A k \in 0..(LaneWidth - 1) :
                      wasm_f32x4_extract_lane(rec.lanes[1], k)
                          = LaneSumOf(SqATerm, rec.len, k)
               /\ rec.acc = normalize_cpp(old, rec.a, rec.len).acc

\* vector_simd.c has summed two lane groups: one lane accumulator holds two
\* nonzero terms, and another lane is nonzero as well.
C9_Witness ==
    /\ Finished("cosineSimilarity") /\ rec.impl = "c"
    /\ rec.len = 2 * LaneWidth
    /\ \E k \in 0..(LaneWidth - 1) :
           /\ ~IsZero(SqBTerm(k)) /\ ~IsZero(SqBTerm(k + LaneWidth))
           /\ IsFin(wasm_f32x4_extract_lane(rec.lanes[3], k))
    /\ \E k \in 0..(LaneWidth - 1) :
           /\ IsFin(wasm_f32x4_extract_lane(rec.lanes[2], k))
           /\ ~IsZero(wasm_f32x4_extract_lane(rec.lanes[2], k))

\* The number of bodies a loop over [0, len) runs: ceil(len/4) in
\* vector_simd.c, len in vector_simd.cpp, none for len <= 0.
ExpectedIters(impl, len) ==
    IF len <= 0 THEN 0
    ELSE IF impl = "c" THEN (len + LaneWidth - 1) \div LaneWidth
    ELSE len

\* C10: for every value of the int len every loop terminates after
\* ceil(len/4) bodies in vector_simd.c (len in vector_simd.cpp, none for
\* len <= 0), and the loop index never leaves the range of the int: the step
\* never wraps around, even for len within 3 of the largest int.
C10_TerminatesWithoutWrap ==
    /\ ~loop.wrapped
    /\ loop.i \in 0..IntMax
    /\ InLoop => loop.iters[Len(loop.iters)] <= ExpectedIters(loop.impl, loop.len)
    /\ loop.pc = "done" =>
           \A j \in DOMAIN loop.iters :
               loop.iters[j] = ExpectedIters(loop.impl, loop.len)

\* C10 as far as the code goes: it holds of vector_simd.cpp for every len and
\* of vector_simd.c for every len <= IntMax - 3.
C10_HoldsBelowLastGroup ==
    (loop.pc # "idle" /\ (loop.impl = "cpp" \/ loop.len <= IntMax - (LaneWidth - 1))) =>
        /\ ~loop.wrapped
        /\ loop.i \in 0..IntMax
        /\ InLoop => loop.iters[Len(loop.iters)] <= ExpectedIters(loop.impl, loop.len)
        /\ loop.pc = "done" =>
               \A j \in DOMAIN loop.iters :
                   loop.iters[j] = ExpectedIters(loop.impl, loop.len)

====
